---- MODULE Spec2Model ----
(***************************************************************************)
(* Model of scripts/performance_monitor.py: the PerformanceMonitor class   *)
(* (bounded metric histories, threshold check, status line, JSON snapshot)  *)
(* and the three run modes of main(): console loop, live chart             *)
(* (plot_realtime) and benchmark (run_benchmark_and_monitor).               *)
(*                                                                         *)
(* Numbers: cpu_percent, memory_mb and the counts are integers here; the   *)
(* quotient sum/len of Python's true division is kept exact as the pair    *)
(* [num, den].  The monitored process and the user are the environment:    *)
(* the readings a tick obtains, a tick's psutil error, the process         *)
(* exiting, Ctrl-C and the closing of the chart window are chosen          *)
(* nondeterministically.  KeyboardInterrupt is delivered where the program *)
(* blocks: in cpu_percent(interval=0.1) at the start of collect_metrics    *)
(* and in time.sleep / the chart's timer wait.                             *)
(***************************************************************************)
EXTENDS Integers, Sequences, FiniteSets, TLC

\* ---------------------------------------------------------------- bounds
MaxCap == 3          \* history_size values 1..MaxCap are explored
Extra == 2           \* ticks a run may take beyond history_size
MaxDuration == 2     \* the positive --duration value explored

\* ------------------------------------------------------ program constants
TrailingWindow == 10         \* the "[-10:]" / ">= 10" of the averages
CpuLimit == 25
MemoryLimit == 500
LatencyLimit == 10
ThreadLimit == 20
MiB == 1024 * 1024
MonitorPid == 7              \* the pid of the monitored process

Modes == {"console", "plot", "benchmark"}
Durations == {0, MaxDuration}

\* What one tick can read from the process: cpu_percent(), memory_info().rss,
\* num_threads() (0 when the call fails), num_handles() (0 off win32).
\* One reading below every limit, one at every limit, one above every limit.
Readings ==
  { [cpu_percent |-> 10, rss |-> 100 * MiB, num_threads |-> 0,  num_handles |-> 12],
    [cpu_percent |-> 25, rss |-> 500 * MiB, num_threads |-> 20, num_handles |-> 0],
    [cpu_percent |-> 30, rss |-> 600 * MiB, num_threads |-> 21, num_handles |-> 0] }

\* The workload of the run that is long enough to fill the trailing window.
SteadyReadings ==
  { [cpu_percent |-> 30, rss |-> 600 * MiB, num_threads |-> 21, num_handles |-> 0] }

VARIABLES
  mode,                  \* args.benchmark / args.plot and HAS_MATPLOTLIB
  duration,              \* args.duration
  history_size,          \* self.history_size
  readings,              \* the readings the monitored process can give
  pid,                   \* self.pid (0 is None)
  process,               \* self.process: "None" or "Process"
  proc_state,            \* the monitored process: absent, running, zombie, gone
  thresholds,            \* self.thresholds
  cpu_history, memory_history, thread_count_history,
  handle_count_history, time_history,
  pc,                    \* position of main / run_benchmark_and_monitor
  metrics,               \* result of the last collect_metrics: {} or {dict}
  warnings,              \* what the last _check_thresholds printed
  line,                  \* averages part of the last status line: {} or {rec}
  now, start_time,       \* time.time()
  exc,                   \* exception pending while the finally block runs
  file,                  \* the JSON file: {} or {data}
  summary,               \* the end-of-run summary printed: {} or {rec}
  exit_status,           \* "running", "0", or the exception that ended main
  recorded,              \* history: the metrics of every successful tick
  reported,              \* history: the warnings of every successful tick
  tick_errors,           \* history: the number of ticks that returned {}
  save_attempted,        \* history: save_metrics was called
  stop_reason            \* history: why the run stopped

histories == <<cpu_history, memory_history, thread_count_history,
               handle_count_history, time_history>>
config == <<mode, duration, history_size, readings, thresholds>>
ghost == <<recorded, reported, tick_errors, save_attempted, stop_reason>>
vars == <<mode, duration, history_size, readings, pid, process, proc_state,
          thresholds, cpu_history, memory_history, thread_count_history,
          handle_count_history, time_history, pc, metrics, warnings, line,
          now, start_time, exc, file, summary, exit_status, recorded,
          reported, tick_errors, save_attempted, stop_reason>>

\* ----------------------------------------------------------- pure helpers
RECURSIVE Sum(_)
Sum(s) == IF s = << >> THEN 0 ELSE Head(s) + Sum(Tail(s))

RECURSIVE Max(_)
Max(s) == IF Len(s) = 1 THEN Head(s)
          ELSE LET m == Max(Tail(s)) IN IF Head(s) > m THEN Head(s) ELSE m

Min2(a, b) == IF a < b THEN a ELSE b

\* list(h)[-n:]
LastN(s, n) == IF Len(s) <= n THEN s ELSE SubSeq(s, Len(s) - n + 1, Len(s))

\* number of entries of s above the limit
CountAbove(s, limit) == Cardinality({i \in 1..Len(s) : s[i] > limit})

\* an append that never evicts: a plain list instead of deque(maxlen=n)
DequeAppendUnbounded(q, v, maxlen) == Append(q, v)

\* deque(maxlen=n).append(v)
DequeAppend(q, v, maxlen) ==
  IF maxlen = 0 THEN q
  ELSE IF Len(q) >= maxlen THEN Append(Tail(q), v)
  ELSE Append(q, v)

\* the sum divided by the capacity instead of the number of samples
AverageOverCapacity(h) == IF Len(h) > 0 THEN [num |-> Sum(h), den |-> history_size]
                          ELSE [num |-> 0, den |-> 1]

\* sum(h) / len(h) if h else 0
Average(h) == IF Len(h) > 0 THEN [num |-> Sum(h), den |-> Len(h)]
              ELSE [num |-> 0, den |-> 1]

\* max(h) if h else 0
Peak(h) == IF Len(h) > 0 THEN Max(h) ELSE 0

DefaultThresholds ==
  [cpu_percent |-> CpuLimit, memory_mb |-> MemoryLimit,
   audio_latency_ms |-> LatencyLimit, thread_count |-> ThreadLimit]

\* the metrics dict collect_metrics builds from a reading
MakeMetrics(r, t) ==
  [timestamp |-> t, cpu_percent |-> r.cpu_percent, memory_mb |-> r.rss \div MiB,
   thread_count |-> r.num_threads, handle_count |-> r.num_handles]

\* _check_thresholds with >= for >
CheckThresholdsAtLeast(m, th) ==
  (IF m.cpu_percent >= th.cpu_percent THEN <<"cpu">> ELSE << >>)
  \o (IF m.memory_mb >= th.memory_mb THEN <<"memory">> ELSE << >>)
  \o (IF m.thread_count >= th.thread_count THEN <<"thread_count">> ELSE << >>)

\* _check_thresholds: the warnings, in the order they are appended
CheckThresholds(m, th) ==
  (IF m.cpu_percent > th.cpu_percent THEN <<"cpu">> ELSE << >>)
  \o (IF m.memory_mb > th.memory_mb THEN <<"memory">> ELSE << >>)
  \o (IF m.thread_count > th.thread_count THEN <<"thread_count">> ELSE << >>)

\* _get_threshold_violations counting a value at the limit as a violation
GetThresholdViolationsAtLeast(cpu_h, mem_h, thr_h, th) ==
  [cpu_exceeded |-> Cardinality({i \in 1..Len(cpu_h) : cpu_h[i] >= th.cpu_percent}),
   memory_exceeded |-> Cardinality({i \in 1..Len(mem_h) : mem_h[i] >= th.memory_mb}),
   thread_exceeded |-> Cardinality({i \in 1..Len(thr_h) : thr_h[i] >= th.thread_count})]

\* _get_threshold_violations
GetThresholdViolations(cpu_h, mem_h, thr_h, th) ==
  [cpu_exceeded |-> CountAbove(cpu_h, th.cpu_percent),
   memory_exceeded |-> CountAbove(mem_h, th.memory_mb),
   thread_exceeded |-> CountAbove(thr_h, th.thread_count)]

\* print_metrics: the averages line, printed only from 10 samples on
PrintAverages(cpu_h, mem_h) ==
  IF Len(cpu_h) >= TrailingWindow
  THEN {[cpu |-> [num |-> Sum(LastN(cpu_h, TrailingWindow)), den |-> TrailingWindow],
         memory |-> [num |-> Sum(LastN(mem_h, TrailingWindow)), den |-> TrailingWindow]]}
  ELSE {}

\* animate: the "Averages (last 10s)" text of the chart
PlotAverages(cpu_h, mem_h) ==
  {[cpu |-> [num |-> Sum(LastN(cpu_h, TrailingWindow)),
             den |-> Min2(TrailingWindow, Len(cpu_h))],
    memory |-> [num |-> Sum(LastN(mem_h, TrailingWindow)),
                den |-> Min2(TrailingWindow, Len(mem_h))]]}

\* the data dict of save_metrics
SnapshotData(p, cpu_h, mem_h, thr_h, time_h, th) ==
  [process_id |-> p,
   monitoring_duration |-> Len(time_h),
   cpu |-> [history |-> cpu_h, average |-> Average(cpu_h), peak |-> Peak(cpu_h)],
   memory |-> [history |-> mem_h, average |-> Average(mem_h), peak |-> Peak(mem_h)],
   threads |-> [history |-> thr_h, average |-> Average(thr_h), peak |-> Peak(thr_h)],
   thresholds |-> th,
   violations |-> GetThresholdViolations(cpu_h, mem_h, thr_h, th)]

\* the last clock value a run of this capacity may reach
LastTime(cap) == cap + Extra - 1

\* ------------------------------------------------------------------- Init
\* the state every run starts in
Start ==
  /\ process = "None"
  /\ thresholds = DefaultThresholds
  /\ cpu_history = << >> /\ memory_history = << >>
  /\ thread_count_history = << >> /\ handle_count_history = << >>
  /\ time_history = << >>
  /\ pc = "resolve"
  /\ metrics = {} /\ warnings = << >> /\ line = {}
  /\ now = 0 /\ start_time = 0
  /\ exc = "none" /\ file = {} /\ summary = {}
  /\ exit_status = "running"
  /\ recorded = << >> /\ reported = << >> /\ tick_errors = 0
  /\ save_attempted = FALSE /\ stop_reason = "none"

Init ==
  /\ mode \in Modes
  /\ duration \in (IF mode = "console" THEN Durations ELSE {0})
  /\ history_size \in 1..MaxCap
  /\ readings = Readings
  /\ pid \in {0, MonitorPid}
  /\ proc_state \in (IF mode = "benchmark" THEN {"running"} ELSE {"running", "absent"})
  /\ Start

\* A run long enough to fill the trailing window of the averages.
InitWide ==
  /\ mode \in Modes
  /\ duration = 0
  /\ history_size = TrailingWindow
  /\ readings = SteadyReadings
  /\ pid = 0
  /\ proc_state = "running"
  /\ Start

\* ---------------------------------------------------------------- actions
\* PerformanceMonitor.__init__ and its _find_process (in benchmark mode the
\* child was just started by Popen and its pid is passed in).
Construct ==
  /\ pc = "resolve"
  /\ IF proc_state = "absent"
     THEN /\ pc' = "exited"
          /\ exit_status' = "SystemExit"
          /\ stop_reason' = "ProcessNotFound"
          /\ UNCHANGED <<process, pid>>
     ELSE /\ process' = "Process"
          /\ pid' = MonitorPid
          /\ pc' = IF mode = "benchmark" THEN "poll" ELSE "collect"
          /\ UNCHANGED <<exit_status, stop_reason>>
  /\ start_time' = now
  /\ UNCHANGED <<config, proc_state, histories, metrics, warnings, line, now,
                 exc, file, summary, recorded, reported, tick_errors,
                 save_attempted>>

\* collect_metrics forgetting the append to handle_count_history
CollectSuccessSkipsHandles(r) ==
  /\ pc = "collect"
  /\ proc_state \in {"running", "zombie"}
  /\ LET m == MakeMetrics(r, now) IN
       /\ cpu_history' = DequeAppend(cpu_history, m.cpu_percent, history_size)
       /\ memory_history' = DequeAppend(memory_history, m.memory_mb, history_size)
       /\ thread_count_history' =
            DequeAppend(thread_count_history, m.thread_count, history_size)
       /\ time_history' = DequeAppend(time_history, now, history_size)
       /\ warnings' = CheckThresholds(m, thresholds)
       /\ metrics' = {m}
       /\ recorded' = Append(recorded, m)
       /\ reported' = Append(reported, CheckThresholds(m, thresholds))
  /\ pc' = "print"
  /\ UNCHANGED <<config, pid, process, proc_state, handle_count_history, line,
                 now, start_time, exc, file, summary, exit_status, tick_errors,
                 save_attempted, stop_reason>>

\* collect_metrics, the process answering: one value appended to each
\* history, then _check_thresholds.
CollectSuccess(r) ==
  /\ pc = "collect"
  /\ proc_state \in {"running", "zombie"}
  /\ LET m == MakeMetrics(r, now) IN
       /\ cpu_history' = DequeAppend(cpu_history, m.cpu_percent, history_size)
       /\ memory_history' = DequeAppend(memory_history, m.memory_mb, history_size)
       /\ thread_count_history' =
            DequeAppend(thread_count_history, m.thread_count, history_size)
       /\ handle_count_history' =
            DequeAppend(handle_count_history, m.handle_count, history_size)
       /\ time_history' = DequeAppend(time_history, now, history_size)
       /\ warnings' = CheckThresholds(m, thresholds)
       /\ metrics' = {m}
       /\ recorded' = Append(recorded, m)
       /\ reported' = Append(reported, CheckThresholds(m, thresholds))
  /\ pc' = "print"
  /\ UNCHANGED <<config, pid, process, proc_state, line, now, start_time, exc,
                 file, summary, exit_status, tick_errors, save_attempted,
                 stop_reason>>

\* collect_metrics without its except clause: the psutil error leaves the
\* loop (through the finally block in the console loop)
CollectFailureAborts ==
  /\ pc = "collect"
  /\ proc_state \in {"running", "zombie"}
  /\ tick_errors' = tick_errors + 1
  /\ IF mode = "console"
     THEN pc' = "save" /\ UNCHANGED exit_status
     ELSE pc' = "exited" /\ exit_status' = "NoSuchProcess"
  /\ UNCHANGED <<config, pid, process, proc_state, histories, metrics,
                 warnings, line, now, start_time, exc, file, summary,
                 recorded, reported, save_attempted, stop_reason>>

\* collect_metrics, a read raising NoSuchProcess or AccessDenied: the except
\* clause prints the error and returns {}.
CollectFailure ==
  /\ pc = "collect"
  /\ proc_state \in {"running", "zombie"}
  /\ metrics' = {}
  /\ warnings' = << >>
  /\ tick_errors' = tick_errors + 1
  /\ pc' = "print"
  /\ UNCHANGED <<config, pid, process, proc_state, histories, line, now,
                 start_time, exc, file, summary, exit_status, recorded,
                 reported, save_attempted, stop_reason>>

\* collect_metrics, the process no longer running: _find_process is called
\* again, psutil.Process(self.pid) raises NoSuchProcess and sys.exit(1)
\* follows.  Only the console loop runs inside a try/finally.
CollectProcessGone ==
  /\ pc = "collect"
  /\ proc_state = "gone"
  /\ stop_reason' = "ProcessExited"
  /\ IF mode = "console"
     THEN /\ exc' = "SystemExit"
          /\ pc' = "save"
          /\ UNCHANGED exit_status
     ELSE /\ exit_status' = "SystemExit"
          /\ pc' = "exited"
          /\ UNCHANGED exc
  /\ UNCHANGED <<config, pid, process, proc_state, histories, metrics,
                 warnings, line, now, start_time, file, summary, recorded,
                 reported, tick_errors, save_attempted>>

\* print_metrics (console loop and benchmark loop)
PrintMetrics ==
  /\ pc = "print"
  /\ mode \in {"console", "benchmark"}
  /\ line' = IF metrics = {} THEN {} ELSE PrintAverages(cpu_history, memory_history)
  /\ pc' = IF mode = "console" THEN "duration" ELSE "sleep"
  /\ UNCHANGED <<config, pid, process, proc_state, histories, metrics,
                 warnings, now, start_time, exc, file, summary, exit_status,
                 ghost>>

\* the rest of animate after collect_metrics: nothing when metrics is
\* empty, else the chart with its summary text
AnimateDraw ==
  /\ pc = "print"
  /\ mode = "plot"
  /\ line' = IF metrics = {} THEN {} ELSE PlotAverages(cpu_history, memory_history)
  /\ pc' = "sleep"
  /\ UNCHANGED <<config, pid, process, proc_state, histories, metrics,
                 warnings, now, start_time, exc, file, summary, exit_status,
                 ghost>>

\* the duration test of the console loop
CheckDuration ==
  /\ pc = "duration"
  /\ IF duration > 0 /\ now - start_time >= duration
     THEN pc' = "save" /\ stop_reason' = "DurationElapsed"
     ELSE pc' = "sleep" /\ UNCHANGED stop_reason
  /\ UNCHANGED <<config, pid, process, proc_state, histories, metrics,
                 warnings, line, now, start_time, exc, file, summary,
                 exit_status, recorded, reported, tick_errors, save_attempted>>

\* time.sleep(interval), or the chart timer's wait for the next frame
Sleep ==
  /\ pc = "sleep"
  /\ now < LastTime(history_size)
  /\ now' = now + 1
  /\ pc' = IF mode = "benchmark" THEN "poll" ELSE "collect"
  /\ UNCHANGED <<config, pid, process, proc_state, histories, metrics,
                 warnings, line, start_time, exc, file, summary, exit_status,
                 ghost>>

\* Ctrl-C: caught by the console loop (then finally) and by the benchmark
\* loop (terminate the child); not caught around plot_realtime.
KeyboardInterrupt ==
  /\ pc \in {"collect", "sleep"}
  /\ stop_reason' = "UserInterrupt"
  /\ CASE mode = "console" ->
            pc' = "save" /\ UNCHANGED <<proc_state, exit_status>>
       [] mode = "benchmark" ->
            /\ pc' = "communicate"
            /\ proc_state' = "zombie"
            /\ UNCHANGED exit_status
       [] mode = "plot" ->
            /\ pc' = "exited"
            /\ exit_status' = "KeyboardInterrupt"
            /\ UNCHANGED proc_state
  /\ UNCHANGED <<config, pid, process, histories, metrics, warnings, line,
                 now, start_time, exc, file, summary, recorded, reported,
                 tick_errors, save_attempted>>

\* the chart window is closed: plt.show() and plot_realtime return, and
\* main returns after them
CloseWindow ==
  /\ mode = "plot"
  /\ pc = "sleep"
  /\ pc' = "exited"
  /\ exit_status' = "0"
  /\ stop_reason' = "WindowClosed"
  /\ UNCHANGED <<config, pid, process, proc_state, histories, metrics,
                 warnings, line, now, start_time, exc, file, summary,
                 recorded, reported, tick_errors, save_attempted>>

\* benchmark_proc.poll() at the head of the benchmark loop
Poll ==
  /\ pc = "poll"
  /\ IF proc_state = "zombie"
     THEN /\ proc_state' = "gone"
          /\ pc' = "communicate"
          /\ stop_reason' = "BenchmarkFinished"
     ELSE /\ pc' = "collect"
          /\ UNCHANGED <<proc_state, stop_reason>>
  /\ UNCHANGED <<config, pid, process, histories, metrics, warnings, line,
                 now, start_time, exc, file, summary, exit_status, recorded,
                 reported, tick_errors, save_attempted>>

\* benchmark_proc.communicate(): waits for the child and reaps it
Communicate ==
  /\ pc = "communicate"
  /\ proc_state' = "gone"
  /\ pc' = "save"
  /\ UNCHANGED <<config, pid, process, histories, metrics, warnings, line,
                 now, start_time, exc, file, summary, exit_status, ghost>>

\* save_metrics: self.process.name() raises NoSuchProcess when the process
\* is gone, before the file is opened
SaveMetrics ==
  /\ pc = "save"
  /\ save_attempted' = TRUE
  /\ IF process = "Process" /\ proc_state = "gone"
     THEN /\ exit_status' = "NoSuchProcess"
          /\ pc' = "exited"
          /\ UNCHANGED file
     ELSE /\ file' = {SnapshotData(pid, cpu_history, memory_history,
                                   thread_count_history, time_history,
                                   thresholds)}
          /\ IF mode = "console"
             THEN pc' = "summary" /\ UNCHANGED exit_status
             ELSE pc' = "exited" /\ exit_status' = "0"
  /\ UNCHANGED <<config, pid, process, proc_state, histories, metrics,
                 warnings, line, now, start_time, exc, summary, recorded,
                 reported, tick_errors, stop_reason>>

\* the "Performance Summary" block of main's finally clause
PrintSummary ==
  /\ pc = "summary"
  /\ pc' = "exited"
  /\ IF Len(cpu_history) = 0 \/ Len(memory_history) = 0
     THEN /\ exit_status' = "ZeroDivisionError"
          /\ UNCHANGED summary
     ELSE /\ summary' =
               {[cpu_average |-> [num |-> Sum(cpu_history), den |-> Len(cpu_history)],
                 cpu_peak |-> Max(cpu_history),
                 memory_average |-> [num |-> Sum(memory_history),
                                     den |-> Len(memory_history)],
                 memory_peak |-> Max(memory_history),
                 violations |-> GetThresholdViolations(cpu_history, memory_history,
                                                       thread_count_history,
                                                       thresholds)]}
          /\ exit_status' = IF exc = "SystemExit" THEN "SystemExit" ELSE "0"
  /\ UNCHANGED <<config, pid, process, proc_state, histories, metrics,
                 warnings, line, now, start_time, exc, file, ghost>>

\* environment: the monitored process exits (a child stays a zombie until
\* its parent reaps it)
ProcessExits ==
  /\ proc_state = "running"
  /\ pc \notin {"resolve", "exited"}
  /\ proc_state' = IF mode = "benchmark" THEN "zombie" ELSE "gone"
  /\ UNCHANGED <<config, pid, process, histories, pc, metrics, warnings, line,
                 now, start_time, exc, file, summary, exit_status, ghost>>

Next ==
  \/ Construct
  \/ \E r \in readings : CollectSuccess(r)
  \/ CollectFailure
  \/ CollectProcessGone
  \/ PrintMetrics
  \/ AnimateDraw
  \/ CheckDuration
  \/ Sleep
  \/ KeyboardInterrupt
  \/ CloseWindow
  \/ Poll
  \/ Communicate
  \/ SaveMetrics
  \/ PrintSummary
  \/ ProcessExits

Spec == Init /\ [][Next]_vars

SpecWide == InitWide /\ [][Next]_vars

TypeOK ==
  /\ mode \in Modes
  /\ pc \in {"resolve", "poll", "collect", "print", "duration", "sleep",
             "communicate", "save", "summary", "exited"}
  /\ proc_state \in {"absent", "running", "zombie", "gone"}
  /\ exc \in {"none", "SystemExit"}
  /\ exit_status \in {"running", "0", "SystemExit", "KeyboardInterrupt",
                      "NoSuchProcess", "ZeroDivisionError"}
  /\ stop_reason \in {"none", "ProcessNotFound", "ProcessExited",
                      "UserInterrupt", "DurationElapsed", "WindowClosed",
                      "BenchmarkFinished"}
  /\ Cardinality(metrics) <= 1 /\ Cardinality(file) <= 1
  /\ Cardinality(line) <= 1 /\ Cardinality(summary) <= 1
  /\ (pc = "exited") = (exit_status # "running")

\* ------------------------------------------------------------ properties
Range(s) == {s[i] : i \in 1..Len(s)}

\* the ticks whose values are still in the histories
Retained == (Len(recorded) - Min2(Len(recorded), history_size) + 1)..Len(recorded)

\* h holds the values f(recorded[i]) of the last min(N, capacity) ticks, in order
HoldsLast(h, f(_)) ==
  LET n == Len(recorded)
      k == IF n < history_size THEN n ELSE history_size
  IN /\ Len(h) = k
     /\ \A i \in 1..k : h[i] = f(recorded[n - k + i])

CpuOf(m) == m.cpu_percent
MemoryOf(m) == m.memory_mb
ThreadsOf(m) == m.thread_count
HandlesOf(m) == m.handle_count
TimeOf(m) == m.timestamp

\* C1: after N successful ticks each of the five histories has length
\* min(N, history_size) and holds the values of the last min(N, history_size)
\* ticks in temporal order, the oldest evicted first.
C1_HistoriesHoldLastSamples ==
  /\ HoldsLast(cpu_history, CpuOf)
  /\ HoldsLast(memory_history, MemoryOf)
  /\ HoldsLast(thread_count_history, ThreadsOf)
  /\ HoldsLast(handle_count_history, HandlesOf)
  /\ HoldsLast(time_history, TimeOf)
  /\ Len(cpu_history) <= history_size

\* five ticks on a monitor of capacity 3: the first two values were evicted
C1_Witness ==
  /\ history_size = 3
  /\ Len(recorded) = 5
  /\ Len(cpu_history) = 3
  /\ recorded[1].cpu_percent # recorded[3].cpu_percent
  /\ cpu_history[1] = recorded[3].cpu_percent
  /\ time_history[3] = recorded[5].timestamp

\* C2: a run that has sampled at least once does not exit before
\* save_metrics was called, whatever the run mode and the exit path.
C2_FinalizationOnEveryExit ==
  (pc = "exited" /\ (Len(recorded) > 0 \/ tick_errors > 0)) => save_attempted

\* C3: a console run interrupted before any sample was recorded, the process
\* still alive, ends with the snapshot written (sample count 0) and without
\* an exception from the finalization.
C3_EmptyRunFinalizes ==
  (/\ pc = "exited" /\ mode = "console" /\ stop_reason = "UserInterrupt"
   /\ Len(recorded) = 0 /\ proc_state = "running")
  => /\ file # {}
     /\ \A d \in file : d.monitoring_duration = 0
     /\ exit_status = "0"

\* C4: an unbounded console run whose process exits after k >= 1 successful
\* ticks (k within the capacity) stops with ProcessExited and still leaves
\* a snapshot of exactly those k samples.
C4_ProcessExitSummary ==
  (/\ pc = "exited" /\ mode = "console" /\ duration = 0
   /\ stop_reason = "ProcessExited"
   /\ Len(recorded) >= 1 /\ Len(recorded) <= history_size)
  => /\ file # {}
     /\ \A d \in file :
          /\ d.monitoring_duration = Len(recorded)
          /\ d.cpu.history = [i \in 1..Len(recorded) |-> recorded[i].cpu_percent]


\* a step in which a tick returned {}
TickFailed == tick_errors' # tick_errors

\* a step in which a tick recorded a sample
TickSucceeded == Len(recorded') = Len(recorded) + 1

\* C5 as stated: a failed tick leaves the run in its loop, and a console run
\* is stopped only by process-not-found at startup, by the user's interrupt
\* or by the elapsed duration.
C5_OnlyStartupOrUserEndsRun ==
  [][ /\ TickFailed =>
           /\ pc' = "print" /\ exit_status' = "running"
           /\ stop_reason' = "none" /\ exc' = "none"
      /\ mode = "console" =>
           /\ stop_reason' \in {"none", "ProcessNotFound", "UserInterrupt",
                               "DurationElapsed"}
           /\ stop_reason' = "ProcessNotFound" =>
                pc = "resolve" \/ stop_reason = "ProcessNotFound" ]_vars

\* C5 amended: an error raised while collect_metrics reads the process never
\* aborts the run (the tick returns {}, nothing is recorded, the loop goes
\* on); a console run is stopped only by process-not-found, at startup or
\* when collect_metrics finds the process no longer running and resolves it
\* again, by the user's interrupt or by the elapsed duration.
C5_TickErrorNeverAborts ==
  [][ /\ TickFailed =>
           /\ pc' = "print" /\ exit_status' = "running"
           /\ stop_reason' = "none" /\ exc' = "none"
           /\ metrics' = {}
           /\ histories' = histories
      /\ mode = "console" =>
           /\ stop_reason' \in {"none", "ProcessNotFound", "ProcessExited",
                               "UserInterrupt", "DurationElapsed"}
           /\ stop_reason' = "ProcessNotFound" =>
                pc = "resolve" \/ stop_reason = "ProcessNotFound"
           /\ stop_reason' = "ProcessExited" =>
                \/ pc = "collect" /\ proc_state = "gone"
                \/ stop_reason = "ProcessExited" ]_vars

\* a tick succeeds after one that failed, in a console run
C5_Witness ==
  /\ mode = "console"
  /\ tick_errors >= 1
  /\ pc = "print"
  /\ metrics # {}
  /\ Len(time_history) >= 1
  /\ time_history[Len(time_history)] >= 1

\* the violation counts written to the file and printed in the summary
ViolationCounts == {d.violations : d \in file} \cup {x.violations : x \in summary}

\* the number of the given ticks at which _check_thresholds reported w
ReportedAt(ticks, w) == Cardinality({i \in ticks : w \in Range(reported[i])})

\* C6 as stated: each violation count is the number of ticks of the whole
\* run at which _check_thresholds reported that violation.
C6_ViolationsCountFullRun ==
  \A v \in ViolationCounts :
    /\ v.cpu_exceeded = ReportedAt(1..Len(reported), "cpu")
    /\ v.memory_exceeded = ReportedAt(1..Len(reported), "memory")
    /\ v.thread_exceeded = ReportedAt(1..Len(reported), "thread_count")

\* C6 amended: each violation count is the number of the last
\* min(N, history_size) successful ticks at which _check_thresholds reported
\* that violation, which is the count of the whole run while N <= history_size.
C6_ViolationsCountRetained ==
  \A v \in ViolationCounts :
    /\ v.cpu_exceeded = ReportedAt(Retained, "cpu")
    /\ v.memory_exceeded = ReportedAt(Retained, "memory")
    /\ v.thread_exceeded = ReportedAt(Retained, "thread_count")
    /\ Len(recorded) <= history_size =>
         v.cpu_exceeded = ReportedAt(1..Len(reported), "cpu")

\* a snapshot of a run longer than the capacity that counts a violation
\* and whose value at the limit was not counted
C6_Witness ==
  /\ Len(recorded) > history_size
  /\ \E d \in file :
       /\ d.violations.cpu_exceeded >= 1
       /\ d.violations.cpu_exceeded < Len(d.cpu.history)
       /\ \E i \in 1..Len(d.cpu.history) : d.cpu.history[i] = CpuLimit

\* C7: the status line of every successful tick carries the averages of cpu
\* and memory over the last min(10, n) samples, n the history length.
C7_StatusLineHasAverages ==
  (pc \in {"duration", "sleep"} /\ metrics # {})
  => /\ line # {}
     /\ \A l \in line :
          /\ l.cpu.num = Sum(LastN(cpu_history, TrailingWindow))
          /\ l.cpu.den = Min2(TrailingWindow, Len(cpu_history))
          /\ l.memory.num = Sum(LastN(memory_history, TrailingWindow))
          /\ l.memory.den = Min2(TrailingWindow, Len(memory_history))

\* the position of a warning in the fixed order of the checks
Rank(w) == CASE w = "cpu" -> 1 [] w = "memory" -> 2 [] w = "thread_count" -> 3

\* C8: after a successful tick the warnings of _check_thresholds are exactly
\* the metrics whose value is strictly above its limit, in the order cpu,
\* memory, thread_count, they are what was reported for that tick, and the
\* thresholds are the ones set at construction.
C8_CheckThresholdsExact ==
  \A m \in metrics :
    /\ Range(warnings) \subseteq {"cpu", "memory", "thread_count"}
    /\ ("cpu" \in Range(warnings)) = (m.cpu_percent > CpuLimit)
    /\ ("memory" \in Range(warnings)) = (m.memory_mb > MemoryLimit)
    /\ ("thread_count" \in Range(warnings)) = (m.thread_count > ThreadLimit)
    /\ \A i, j \in 1..Len(warnings) : i < j => Rank(warnings[i]) < Rank(warnings[j])
    /\ (pc = "print" => reported[Len(reported)] = warnings)
    /\ thresholds = DefaultThresholds

\* a tick whose values all equal their limits gave no warning, after a tick
\* that gave all three
C8_Witness ==
  /\ pc = "print"
  /\ \E m \in metrics :
       /\ m.cpu_percent = CpuLimit /\ m.memory_mb = MemoryLimit
       /\ m.thread_count = ThreadLimit
  /\ warnings = << >>
  /\ \E i \in 1..Len(reported) : reported[i] = <<"cpu", "memory", "thread_count">>

\* C9: in a snapshot written after at least one sample, cpu.average is the
\* sum of the cpu history written in it divided by its length, and that
\* history is the content of cpu_history.
C9_SnapshotAverageIsMean ==
  \A d \in file :
    /\ d.cpu.history = cpu_history
    /\ d.monitoring_duration = Len(time_history)
    /\ Len(d.cpu.history) > 0 =>
         /\ d.cpu.average.den > 0
         /\ d.cpu.average.num * Len(d.cpu.history)
              = Sum(d.cpu.history) * d.cpu.average.den

\* a snapshot of a history that is not full and holds different values
C9_Witness ==
  \E d \in file :
    /\ Len(d.cpu.history) = 2
    /\ history_size = 3
    /\ d.cpu.history[1] # d.cpu.history[2]
    /\ d.cpu.average = [num |-> d.cpu.history[1] + d.cpu.history[2], den |-> 2]

SameLength ==
  /\ Len(memory_history) = Len(cpu_history)
  /\ Len(thread_count_history) = Len(cpu_history)
  /\ Len(handle_count_history) = Len(cpu_history)
  /\ Len(time_history) = Len(cpu_history)

\* h2 is h with one value appended (the oldest dropped when h was full)
OneAppended(h, h2) ==
  /\ Len(h2) = Min2(Len(h) + 1, history_size)
  /\ \A i \in 1..(Len(h2) - 1) : h2[i] = h[Len(h) - (Len(h2) - 1) + i]

\* C10: the five histories always have the same length; a successful
\* collect_metrics appends one value to each of them, and one that fails
\* returns {} and leaves all five unchanged.
C10_HistoriesMoveTogether ==
  /\ []SameLength
  /\ [][ /\ TickSucceeded =>
              /\ OneAppended(cpu_history, cpu_history')
              /\ OneAppended(memory_history, memory_history')
              /\ OneAppended(thread_count_history, thread_count_history')
              /\ OneAppended(handle_count_history, handle_count_history')
              /\ OneAppended(time_history, time_history')
         /\ TickFailed => metrics' = {} /\ histories' = histories
         /\ ~TickSucceeded => histories' = histories ]_vars

\* a tick failed after two were recorded
C10_Witness ==
  /\ pc = "print"
  /\ metrics = {}
  /\ tick_errors = 1
  /\ Len(cpu_history) = 2
  /\ Len(handle_count_history) = 2

====
